---- MODULE Spec2Model ----
(***************************************************************************)
(* PowerPointBuilder: pp_agent.py.  main() analyses the template's slide   *)
(* layouts, obtains a slide plan from the language model and hands it to   *)
(* build_presentation, which instantiates one slide per plan entry in the  *)
(* opened template and saves the document.                                 *)
(*                                                                         *)
(* The document library (python-pptx) is modelled by what its primitives   *)
(* do to the document: Presentation(path), slide_layouts[i], add_slide,    *)
(* shape.text, text_frame.clear, add_paragraph, notes_text_frame.text and  *)
(* save.  A primitive that can raise raises as a choice of the environment.*)
(***************************************************************************)
EXTENDS Integers, Sequences, FiniteSets

\* ------------------------------------------------------------------ bounds
MaxLayouts == 2          \* layouts in a template: 1..MaxLayouts
MaxPlan == 2             \* entries in a slide plan: 0..MaxPlan
MaxItems == 2            \* bullet items in a list content: 0..MaxItems
MaxTemplateSlides == 1   \* slides the template file already holds: 0..MaxTemplateSlides
NumRequests == 2         \* /generate requests the web application serves
MaxClock == 1            \* seconds the wall clock advances while they are served

\* ------------------------------------------------------- program constants
DefaultLayout == 1       \* the fallback layout index
FontSize == 18           \* Pt(18)

\* ------------------------------------------------------------- the template
\* A placeholder declaration of a layout, as analyze_slide_layouts reads it.
Placeholder(i, t, n) == [idx |-> i, type |-> t, name |-> n]

\* The layouts a template is made of.  text_shapes is the number of shapes
\* with a text frame on a slide instantiated from the layout; date, footer
\* and slide-number placeholders are declared on a layout but are not
\* instantiated on its slides.  A layout with ok = FALSE is malformed:
\* add_slide raises on it.
LayoutKinds ==
  { [name |-> "Blank", ok |-> TRUE, text_shapes |-> 0,
     placeholders |-> << Placeholder(10, "DATE (16)", "Date Placeholder 1") >>],
    [name |-> "Title Only", ok |-> TRUE, text_shapes |-> 1,
     placeholders |-> << Placeholder(0, "TITLE (1)", "Title 1") >>],
    [name |-> "Title and Content", ok |-> TRUE, text_shapes |-> 2,
     placeholders |-> << Placeholder(0, "TITLE (1)", "Title 1"),
                         Placeholder(1, "OBJECT (7)", "Content Placeholder 2") >>],
    [name |-> "Malformed", ok |-> FALSE, text_shapes |-> 0,
     placeholders |-> << Placeholder(0, "TITLE (1)", "Title 1") >>] }

SeqsUpTo(S, lo, hi) == UNION { [1..n -> S] : n \in lo..hi }

\* A slide the template file already holds (entry 0: it belongs to no plan entry).
TemplateSlide ==
  [entry |-> 0, layout |-> 0, layout_name |-> "", shapes |-> << >>, notes |-> ""]

Templates ==
  { [layouts |-> ls, slides |-> [i \in 1..t |-> TemplateSlide]] :
      ls \in SeqsUpTo(LayoutKinds, 1, MaxLayouts), t \in 0..MaxTemplateSlides }

\* ----------------------------------------------------------- the slide plan
Titles == {"T1", "T2"}
Items == << "a", "b", "c", "d" >>
Min(a, b) == IF a < b THEN a ELSE b

\* content is either a list of bullet strings or a single text block.
ListContent(n) == [kind |-> "list", items |-> SubSeq(Items, 1, n), text |-> ""]
StrContent(s) == [kind |-> "str", items |-> << >>, text |-> s]
Contents ==
  { ListContent(n) : n \in 0..Min(MaxItems, Len(Items)) } \cup { StrContent("text") }

NotesValues == {"", "say this"}

\* layout_index comes from the language model: any integer, here around the
\* valid range on both sides.
IdxRange == (0 - MaxLayouts)..MaxLayouts

Entries ==
  [layout_index : IdxRange, title : Titles, content : Contents, notes : NotesValues]

\* The plans of n entries.
Plans(n) == [1..n -> Entries]


\* ------------------------------------------------------------------- state
VARIABLES
  template,      \* the template file handed to main (--template)
  layouts_info,  \* what analyze_slide_layouts returned
  slides_data,   \* the plan generate_slide_outline returned (its 'slides')
  prs,           \* the document build_presentation has opened
  idx,           \* position in the plan of the entry being processed (1-based)
  pc,            \* where main / build_presentation stands
  log,           \* records written through logger (warnings and errors)
  events,        \* history: the document primitives called, in call order
  outFile,       \* the file at output_path
  escaped,       \* the step whose exception left build_presentation, or "none"
  \* app.py: the /generate requests and the files they share
  uploaded,      \* uploads/template.pptx: the request whose template it holds, 0 if none
  generated,     \* Generated_Presentation.pptx in the working directory
  outputs,       \* outputs/Presentation_<timestamp>.pptx, by timestamp
  clock,         \* datetime.now(), in seconds
  rpc,           \* where each request's handler (and its subprocess) stands
  out_name,      \* each request's timestamp, which names its output file
  sub_analyzed,  \* the template each request's subprocess analysed
  response       \* what each request answered: "none", "success" or the error

agent_vars ==
  << template, layouts_info, slides_data, prs, idx, pc, log, events, outFile, escaped >>
web_vars ==
  << uploaded, generated, outputs, clock, rpc, out_name, sub_analyzed, response >>
vars == << agent_vars, web_vars >>

LogRec(level, what, entry) == [level |-> level, what |-> what, entry |-> entry]
Event(op, entry, ok) == [op |-> op, entry |-> entry, ok |-> ok]

\* ------------------------------------------------- the document primitives
\* A paragraph of a text frame; size 0 is "inherited from the layout".
Paragraph(text, level, size) == [text |-> text, level |-> level, size |-> size]
EmptyParagraph == Paragraph("", 0, 0)

\* A text frame always holds at least one paragraph: a new placeholder's
\* frame holds one empty paragraph.
NewTextFrame == << EmptyParagraph >>

\* Mutant of SetText: the text is added after what the frame held.
SetTextKeepsOld(frame, s) == Append(frame, Paragraph(s, 0, 0))

\* shape.text = s / text_frame.text = s: the frame holds s as its one paragraph.
SetText(frame, s) == << Paragraph(s, 0, 0) >>

\* text_frame.clear(): removes all paragraphs except one, emptied.
TextFrameClear(frame) == << EmptyParagraph >>

\* p = body.add_paragraph(); p.text = str(item); p.level = 0; p.font.size = Pt(18)
AddParagraph(frame, item) == Append(frame, Paragraph(item, 0, FontSize))

\* prs.slide_layouts[i] on n layouts, with Python's sequence indexing: a
\* negative i counts from the end, anything else outside raises IndexError.
slide_layouts_getitem(n, i) ==
  IF 0 <= i /\ i < n THEN [found |-> TRUE, pos |-> i]
  ELSE IF i < 0 /\ 0 - n <= i THEN [found |-> TRUE, pos |-> n + i]
  ELSE [found |-> FALSE, pos |-> 0]

\* prs.slides.add_slide(layout): the new slide carries one text-bearing shape
\* per instantiated placeholder, each with a fresh text frame, and no notes.
NewSlide(entry, pos, layout) ==
  [entry |-> entry, layout |-> pos, layout_name |-> layout.name,
   shapes |-> [j \in 1..layout.text_shapes |-> NewTextFrame], notes |-> ""]

\* ----------------------------------------------------- analyze_slide_layouts
\* Mutant of layout_data: layouts numbered from 1, as build's enumerate is.
layout_data_one_based(i, layout) ==
  [index |-> i + 1, name |-> layout.name, placeholders |-> layout.placeholders]

layout_data(i, layout) ==
  [index |-> i, name |-> layout.name, placeholders |-> layout.placeholders]

RECURSIVE layouts_loop(_, _, _)
layouts_loop(layouts, i, acc) ==
  IF i > Len(layouts) THEN acc
  ELSE layouts_loop(layouts, i + 1, Append(acc, layout_data(i - 1, layouts[i])))

analyze_slide_layouts(t) ==
  LET info == layouts_loop(t.layouts, 1, << >>)
  IN  [layouts |-> info, total_layouts |-> Len(info)]

NoLayoutsInfo == [layouts |-> << >>, total_layouts |-> 0]
NoPresentation == [layouts |-> << >>, slides |-> << >>]
NoFile == [state |-> "absent", slides |-> << >>]
PartialFile == [state |-> "partial", slides |-> << >>]

\* ------------------------------------------------------- app.py: the files
Requests == 1..NumRequests
Seconds == 0..MaxClock

\* A presentation file the web application handles: the request whose
\* template the subprocess analysed, the one whose template it built from,
\* and the request whose subprocess wrote it.
WebFile(a, t, r) == [exists |-> TRUE, analyzed |-> a, template |-> t, by |-> r]
NoWebFile == [exists |-> FALSE, analyzed |-> 0, template |-> 0, by |-> 0]

\* Lines 31-33 of app.py: the folders exist, no request is being served.
WebIdle ==
  /\ uploaded = 0
  /\ generated = NoWebFile
  /\ outputs = [s \in Seconds |-> NoWebFile]
  /\ clock = 0
  /\ rpc = [r \in Requests |-> "idle"]
  /\ out_name = [r \in Requests |-> 0]
  /\ sub_analyzed = [r \in Requests |-> 0]
  /\ response = [r \in Requests |-> "none"]

\* ----------------------------------------------------------------- main
Init ==
  /\ template \in Templates
  /\ layouts_info = NoLayoutsInfo
  /\ slides_data = << >>
  /\ prs = NoPresentation
  /\ idx = 1
  /\ pc = "analyze"
  /\ log = {}
  /\ events = << >>
  /\ outFile = NoFile
  /\ escaped = "none"
  /\ WebIdle

\* main, lines 309-313: analyze_slide_layouts(args.template); a template that
\* cannot be loaded raises, and main's handler returns 1.
Analyze ==
  /\ pc = "analyze"
  /\ \/ /\ layouts_info' = analyze_slide_layouts(template)
        /\ pc' = "generate"
        /\ log' = log
     \/ /\ layouts_info' = layouts_info
        /\ pc' = "failed"
        /\ log' = log \cup {LogRec("error", "load_template", 0)}
  /\ UNCHANGED << template, slides_data, prs, idx, events, outFile, escaped >>

\* main, lines 315-322: the plan is whatever the language model answered; an
\* empty plan makes main return 1.
Generate ==
  /\ pc = "generate"
  /\ \E n \in 0..MaxPlan : \E plan \in Plans(n) :
       /\ slides_data' = plan
       /\ pc' = IF plan = << >> THEN "failed" ELSE "open"
  /\ UNCHANGED << template, layouts_info, prs, idx, log, events, outFile, escaped >>

\* ----------------------------------------------------- build_presentation
\* Lines 207-215: the template is loaded; a failure is logged and re-raised.
Open ==
  /\ pc = "open"
  /\ \/ /\ prs' = [layouts |-> template.layouts, slides |-> template.slides]
        /\ events' = Append(events, Event("open", 0, TRUE))
        /\ pc' = "entry"
        /\ UNCHANGED << log, escaped >>
     \/ /\ log' = log \cup {LogRec("error", "load_template", 0)}
        /\ events' = Append(events, Event("open", 0, FALSE))
        /\ escaped' = "load"
        /\ pc' = "failed"
        /\ prs' = prs
  /\ idx' = 1
  /\ UNCHANGED << template, layouts_info, slides_data, outFile >>

\* Lines 223-226: "Ensure layout index is valid".
LayoutNotFound(layout_index, n) == layout_index >= n
ResolveLayout(layout_index, n) ==
  IF LayoutNotFound(layout_index, n) THEN DefaultLayout ELSE layout_index

\* Mutant of NextIdx: the loop does not advance, and takes the entry again.
NextIdxStuck(i) == i

\* Mutant of AfterEntry: the loop is left (break) instead of continued.
AfterEntryBreak(i, n) == "save"

\* Line 217, for idx, slide_data in enumerate(slides, 1): the position after
\* the entry at position i, and where the loop stands then, n being len(slides).
NextIdx(i) == i + 1
AfterEntry(i, n) == IF i < n THEN "entry" ELSE "save"

\* The records an entry's layout resolution logs (line 225).
ResolveLog(i, layout_index, n) ==
  IF LayoutNotFound(layout_index, n)
  THEN {LogRec("warning", "layout_not_found", i)}
  ELSE {}

\* Mutant of AddFailedLog: the entry is skipped without a log record.
AddFailedLogSilent(i) == {}

\* Lines 232-234: a failed add_slide is logged.
AddFailedLog(i) == {LogRec("error", "add_slide", i)}

\* Lines 240-242: a slide without text shapes is logged.
NoTextShapesLog(i) == {LogRec("warning", "no_text_shapes", i)}

\* Lines 217-242: one pass of the loop up to the text-shape test: resolve the
\* layout, add the slide, enumerate its text shapes.
AddSlide ==
  /\ pc = "entry"
  /\ LET slide_data == slides_data[idx]
         n == Len(prs.layouts)
         layout_index == ResolveLayout(slide_data.layout_index, n)
         got == slide_layouts_getitem(n, layout_index)
         resolved == log \cup ResolveLog(idx, slide_data.layout_index, n)
     IN  IF ~got.found \/ ~prs.layouts[got.pos + 1].ok
         THEN \* IndexError or add_slide raised: except ... continue
              /\ log' = resolved \cup AddFailedLog(idx)
              /\ events' = Append(events, Event("add_slide", idx, FALSE))
              /\ prs' = prs
              /\ idx' = NextIdx(idx)
              /\ pc' = AfterEntry(idx, Len(slides_data))
         ELSE LET slide == NewSlide(idx, got.pos, prs.layouts[got.pos + 1])
              IN  /\ prs' = [prs EXCEPT !.slides = Append(@, slide)]
                  /\ events' = Append(events, Event("add_slide", idx, TRUE))
                  /\ IF Len(slide.shapes) = 0
                     THEN \* if not text_shapes: ... continue
                          /\ log' = resolved \cup NoTextShapesLog(idx)
                          /\ idx' = NextIdx(idx)
                          /\ pc' = AfterEntry(idx, Len(slides_data))
                     ELSE /\ log' = resolved
                          /\ idx' = idx
                          /\ pc' = "title"
  /\ UNCHANGED << template, layouts_info, slides_data, outFile, escaped >>

\* The slide of the entry being populated and its text shapes (line 237: on a
\* slide just instantiated every shape is a placeholder with a text frame).
CurrentSlide == prs.slides[Len(prs.slides)]
text_shapes == CurrentSlide.shapes
WithShape(p, j, frame) == [p EXCEPT !.slides[Len(p.slides)].shapes[j] = frame]
WithNotes(p, notes) == [p EXCEPT !.slides[Len(p.slides)].notes = notes]

\* The text shape the title goes to (line 247) and the one the content goes
\* to (line 256), as 1-based positions in text_shapes.
TitleShape == 1
BodyShape == 2

\* Lines 244-248: the title goes to the first text shape.  The assignment is
\* not inside any try: when it raises, the exception leaves build_presentation.
SetTitle ==
  /\ pc = "title"
  /\ \/ /\ prs' = WithShape(prs, TitleShape,
                            SetText(text_shapes[TitleShape], slides_data[idx].title))
        /\ events' = Append(events, Event("title", idx, TRUE))
        /\ pc' = IF Len(text_shapes) > 1 THEN "content" ELSE "notes"
        /\ UNCHANGED << log, escaped >>
     \/ /\ prs' = prs
        /\ events' = Append(events, Event("title", idx, FALSE))
        /\ escaped' = "title"
        /\ pc' = "failed"
        /\ log' = log \cup {LogRec("error", "fatal", 0)}
  /\ UNCHANGED << template, layouts_info, slides_data, idx, outFile >>

\* Lines 255-270: the assignments made to the body frame, in order: clear(),
\* then one add_paragraph per item of a list, or body.text for a string.
NumContentOps(content) ==
  IF content.kind = "list" THEN 1 + Len(content.items) ELSE 2

RECURSIVE AddItems(_, _, _)
AddItems(frame, items, k) ==
  IF k = 0 \/ items = << >> THEN frame
  ELSE AddItems(AddParagraph(frame, Head(items)), Tail(items), k - 1)

\* The body frame after the first m of those assignments.
BodyAfter(frame, content, m) ==
  IF m = 0 THEN frame
  ELSE IF content.kind = "list"
       THEN AddItems(TextFrameClear(frame), content.items, m - 1)
       ELSE IF m = 1 THEN TextFrameClear(frame)
            ELSE SetText(TextFrameClear(frame), content.text)

\* Lines 250-272: the content goes to the second text shape; whatever raises
\* inside is caught and logged, and what was assigned before stays.
SetContent ==
  /\ pc = "content"
  /\ LET content == slides_data[idx].content
     IN  \E m \in 0..NumContentOps(content) :
           /\ prs' = WithShape(prs, BodyShape, BodyAfter(text_shapes[BodyShape], content, m))
           /\ IF m = NumContentOps(content)
              THEN /\ events' = Append(events, Event("content", idx, TRUE))
                   /\ log' = log
              ELSE /\ events' = Append(events, Event("content", idx, FALSE))
                   /\ log' = log \cup {LogRec("error", "content", idx)}
  /\ pc' = "notes"
  /\ UNCHANGED << template, layouts_info, slides_data, idx, outFile, escaped >>

\* Lines 274-282: non-empty notes go to the notes frame; a failure is caught
\* and logged.  Then the loop moves on.
SetNotes ==
  /\ pc = "notes"
  /\ LET notes == slides_data[idx].notes
     IN  IF notes = ""
         THEN UNCHANGED << prs, events, log >>
         ELSE \/ /\ prs' = WithNotes(prs, notes)
                 /\ events' = Append(events, Event("notes", idx, TRUE))
                 /\ log' = log
              \/ /\ prs' = prs
                 /\ events' = Append(events, Event("notes", idx, FALSE))
                 /\ log' = log \cup {LogRec("error", "notes", idx)}
  /\ idx' = NextIdx(idx)
  /\ pc' = AfterEntry(idx, Len(slides_data))
  /\ UNCHANGED << template, layouts_info, slides_data, outFile, escaped >>

\* What prs.save(output_path) leaves at output_path when it raises: it writes
\* to the path itself, so the file is as it was or is a truncated package.
FailedSaveFiles(file) == {file, PartialFile}

\* Lines 284-291: the document is written to output_path; a failure is logged
\* and re-raised.
Save ==
  /\ pc = "save"
  /\ \/ /\ outFile' = [state |-> "complete", slides |-> prs.slides]
        /\ events' = Append(events, Event("save", 0, TRUE))
        /\ pc' = "done"
        /\ UNCHANGED << log, escaped >>
     \/ /\ outFile' \in FailedSaveFiles(outFile)
        /\ events' = Append(events, Event("save", 0, FALSE))
        /\ log' = log \cup {LogRec("error", "save", 0), LogRec("error", "fatal", 0)}
        /\ escaped' = "save"
        /\ pc' = "failed"
  /\ UNCHANGED << template, layouts_info, slides_data, prs, idx >>

Next ==
  \/ Analyze /\ UNCHANGED web_vars
  \/ Generate /\ UNCHANGED web_vars
  \/ Open /\ UNCHANGED web_vars
  \/ AddSlide /\ UNCHANGED web_vars
  \/ SetTitle /\ UNCHANGED web_vars
  \/ SetContent /\ UNCHANGED web_vars
  \/ SetNotes /\ UNCHANGED web_vars
  \/ Save /\ UNCHANGED web_vars

Spec == Init /\ [][Next]_vars

\* ------------------------------------------- app.py: generate_presentation
\* Each request r runs the handler of /generate in its own thread of the
\* development server; its template is identified by r.  Every agent variable
\* is left alone: the subprocess is followed only through the files it shares.
Goto(r, where) == rpc' = [rpc EXCEPT ![r] = where]
Answer(r, what) ==
  /\ response' = [response EXCEPT ![r] = what]
  /\ Goto(r, "done")

\* Lines 73-77: the uploaded template is saved as uploads/template.pptx.
Upload(r) ==
  /\ rpc[r] = "idle"
  /\ uploaded' = r
  /\ Goto(r, "stamp")
  /\ UNCHANGED << generated, outputs, clock, out_name, sub_analyzed, response >>

\* Lines 79-83: the output file is named after the current second.
Stamp(r) ==
  /\ rpc[r] = "stamp"
  /\ out_name' = [out_name EXCEPT ![r] = clock]
  /\ Goto(r, "run")
  /\ UNCHANGED << uploaded, generated, outputs, clock, sub_analyzed, response >>

\* Line 100 and pp_agent.py line 312: the subprocess starts and analyses the
\* file at uploads/template.pptx.
SubAnalyze(r) ==
  /\ rpc[r] = "run"
  /\ sub_analyzed' = [sub_analyzed EXCEPT ![r] = uploaded]
  /\ Goto(r, "sub_build")
  /\ UNCHANGED << uploaded, generated, outputs, clock, out_name, response >>

\* pp_agent.py line 326: build_presentation loads uploads/template.pptx again
\* and saves to OUTPUT_FILE, Generated_Presentation.pptx in the working
\* directory, and main returns 0; or main returns 1.
SubBuild(r) ==
  /\ rpc[r] = "sub_build"
  /\ \/ /\ generated' = WebFile(sub_analyzed[r], uploaded, r)
        /\ Goto(r, "returned_0")
     \/ /\ generated' = generated
        /\ Goto(r, "returned_1")
  /\ UNCHANGED << uploaded, outputs, clock, out_name, sub_analyzed, response >>

\* Lines 104 and 141-143: the subprocess did not end within the timeout.
Timeout(r) ==
  /\ rpc[r] \in {"run", "sub_build"}
  /\ Answer(r, "timed_out")
  /\ UNCHANGED << uploaded, generated, outputs, clock, out_name, sub_analyzed >>

\* Lines 113-119: a non-zero return code is answered with an error.
SubprocessFailed(r) ==
  /\ rpc[r] = "returned_1"
  /\ Answer(r, "failed")
  /\ UNCHANGED << uploaded, generated, outputs, clock, out_name, sub_analyzed >>

\* Lines 121-131: os.path.exists('Generated_Presentation.pptx').
Exists(r) ==
  /\ rpc[r] = "returned_0"
  /\ IF generated.exists
     THEN Goto(r, "replace") /\ response' = response
     ELSE Answer(r, "not_found")
  /\ UNCHANGED << uploaded, generated, outputs, clock, out_name, sub_analyzed >>

\* Lines 127 and 133-139: os.replace moves the generated file to the request's
\* output path, replacing what is there, and the request answers success; a
\* file gone since the test raises, and line 144 answers an error.
Replace(r) ==
  /\ rpc[r] = "replace"
  /\ IF generated.exists
     THEN /\ outputs' = [outputs EXCEPT ![out_name[r]] = generated]
          /\ generated' = NoWebFile
          /\ Answer(r, "success")
     ELSE /\ UNCHANGED << outputs, generated >>
          /\ Answer(r, "exception")
  /\ UNCHANGED << uploaded, clock, out_name, sub_analyzed >>

\* A second passes.
Tick ==
  /\ clock < MaxClock
  /\ clock' = clock + 1
  /\ UNCHANGED << uploaded, generated, outputs, rpc, out_name, sub_analyzed, response >>

\* The agent's variables while the web application is followed.
AgentIdle ==
  /\ template = [layouts |-> << >>, slides |-> << >>]
  /\ layouts_info = NoLayoutsInfo
  /\ slides_data = << >>
  /\ prs = NoPresentation
  /\ idx = 1
  /\ pc = "analyze"
  /\ log = {}
  /\ events = << >>
  /\ outFile = NoFile
  /\ escaped = "none"

WebInit == AgentIdle /\ WebIdle

WebNext ==
  \/ \E r \in Requests : Upload(r) /\ UNCHANGED agent_vars
  \/ \E r \in Requests : Stamp(r) /\ UNCHANGED agent_vars
  \/ \E r \in Requests : SubAnalyze(r) /\ UNCHANGED agent_vars
  \/ \E r \in Requests : SubBuild(r) /\ UNCHANGED agent_vars
  \/ \E r \in Requests : Timeout(r) /\ UNCHANGED agent_vars
  \/ \E r \in Requests : SubprocessFailed(r) /\ UNCHANGED agent_vars
  \/ \E r \in Requests : Exists(r) /\ UNCHANGED agent_vars
  \/ \E r \in Requests : Replace(r) /\ UNCHANGED agent_vars
  \/ Tick /\ UNCHANGED agent_vars

SpecWeb == WebInit /\ [][WebNext]_vars

\* ------------------------------------------------------ reading the state
NumEntries == Len(slides_data)
NumLayouts == Len(template.layouts)
NumTemplateSlides == Len(template.slides)

\* The loop has passed entry k.
Finished(k) == k \in 1..NumEntries /\ k < idx

\* The positions in the document of the slides instantiated for entry k.
PlanSlides(k) == { j \in 1..Len(prs.slides) : prs.slides[j].entry = k }

\* The events of a given kind recorded for entry k.
EventsOf(op, k) == { i \in 1..Len(events) : events[i].op = op /\ events[i].entry = k }

\* The loop of line 217 has run to its end.
LoopDone == pc \in {"save", "done"} \/ (pc = "failed" /\ escaped = "save")

OutOfRange(k) ==
  slides_data[k].layout_index < 0 \/ slides_data[k].layout_index >= NumLayouts

FieldOps == {"title", "content", "notes"}

\* ------------------------------------------------------------------ claims

\* C1: for every plan entry whose layout_index lies outside [0, num_layouts),
\* once its slide has been requested a layout_not_found warning is logged for
\* it and every slide instantiated for it uses the default layout 1.
C1_OutOfRangeUsesDefault ==
  \A k \in 1..NumEntries :
    (OutOfRange(k) /\ EventsOf("add_slide", k) # {}) =>
      /\ LogRec("warning", "layout_not_found", k) \in log
      /\ \A j \in PlanSlides(k) : prs.slides[j].layout = DefaultLayout

\* C2: a failed assignment of a single field (title, content, notes) is logged
\* for that field and its exception does not leave build_presentation.
C2_FieldFailureIsolated ==
  \A i \in 1..Len(events) :
    (events[i].op \in FieldOps /\ ~events[i].ok) =>
      /\ LogRec("error", events[i].op, events[i].entry) \in log
      /\ escaped # events[i].op

\* C3: when a list of n items has been written to the second text shape of an
\* entry's slide, that shape holds exactly n paragraphs, all at level 0, whose
\* texts are the items in order.
C3_ListGivesExactlyNParagraphs ==
  \A k \in 1..NumEntries :
    (slides_data[k].content.kind = "list" /\ Event("content", k, TRUE) \in
        { events[i] : i \in 1..Len(events) }) =>
      \A j \in PlanSlides(k) :
        LET body == prs.slides[j].shapes[BodyShape]
            items == slides_data[k].content.items
        IN  /\ Len(body) = Len(items)
            /\ \A q \in 1..Len(body) :
                 body[q].level = 0 /\ body[q].text = items[q]

\* C4: when the loop has run to its end, the slides added are as many as the
\* entries whose add_slide did not fail (at most len(plan)), an add_slide error
\* is logged for exactly the entries with no slide in the document, and every
\* entry's slide was requested exactly once (a skipped entry is not retried).
AddedSlides == Len(prs.slides) - NumTemplateSlides
C4_SlidesMatchSurvivingEntries ==
  LoopDone =>
    /\ AddedSlides =
         Cardinality({ k \in 1..NumEntries : Event("add_slide", k, FALSE) \notin
                         { events[i] : i \in 1..Len(events) } })
    /\ AddedSlides <= NumEntries
    /\ \A k \in 1..NumEntries :
         /\ (LogRec("error", "add_slide", k) \in log) <=> (PlanSlides(k) = {})
         /\ Cardinality(EventsOf("add_slide", k)) = 1
         /\ Cardinality(PlanSlides(k)) <= 1

\* C4's case: a run that ends with one entry skipped and another one built.
C4_Witness ==
  /\ pc = "done"
  /\ \E k1, k2 \in 1..NumEntries : PlanSlides(k1) = {} /\ PlanSlides(k2) # {}

\* An entry a plan of valid entries is made of: layout_index in range and the
\* layout giving at least two text-bearing shapes.
ValidEntry(k) ==
  /\ ~OutOfRange(k)
  /\ template.layouts[slides_data[k].layout_index + 1].ok
  /\ template.layouts[slides_data[k].layout_index + 1].text_shapes >= 2
AllValid == \A k \in 1..NumEntries : ValidEntry(k)

\* The title a saved slide shows: the text of its first text shape.
TitleOf(slide) == slide.shapes[1][1].text

\* C5 as stated: a plan of N valid entries saves a document of exactly N+1
\* slides, one leading slide followed by the N plan slides, titled in plan order.
C5_SavedDeckHasNPlusOneSlides ==
  (pc = "done" /\ AllValid) =>
    /\ Len(outFile.slides) = NumEntries + 1
    /\ outFile.slides[1].entry = 0
    /\ \A k \in 1..NumEntries :
         /\ outFile.slides[1 + k].entry = k
         /\ TitleOf(outFile.slides[1 + k]) = slides_data[k].title

\* C5 amended: a plan of N valid entries saves a document of exactly T+N
\* slides, T being the number of slides the template file already holds: the
\* template's T slides first, then the N plan slides, titled in plan order.
C5_SavedDeckHasTemplatePlusNSlides ==
  (pc = "done" /\ AllValid) =>
    /\ Len(outFile.slides) = NumTemplateSlides + NumEntries
    /\ SubSeq(outFile.slides, 1, NumTemplateSlides) = template.slides
    /\ \A k \in 1..NumEntries :
         /\ outFile.slides[NumTemplateSlides + k].entry = k
         /\ TitleOf(outFile.slides[NumTemplateSlides + k]) = slides_data[k].title

\* C5's case: two valid entries with different titles, saved.
C5_Witness ==
  /\ pc = "done"
  /\ AllValid
  /\ NumEntries = 2
  /\ slides_data[1].title # slides_data[2].title
  /\ Len(outFile.slides) = NumTemplateSlides + 2

\* C6: for every entry the loop has passed whose slide was instantiated and
\* whose notes are non-empty, the notes were written to the slide's notes
\* frame or that write was attempted and its failure logged, whatever the
\* number of text shapes of the slide.
C6_NotesAlwaysAttempted ==
  \A k \in 1..NumEntries :
    (Finished(k) /\ PlanSlides(k) # {} /\ slides_data[k].notes # "") =>
      /\ EventsOf("notes", k) # {}
      /\ \A j \in PlanSlides(k) :
           \/ prs.slides[j].notes = slides_data[k].notes
           \/ LogRec("error", "notes", k) \in log

\* C7: whenever the save step fails, the operation fails towards the caller
\* and no partial file is at the output path.
C7_SaveAllOrNothing ==
  (Event("save", 0, FALSE) \in { events[i] : i \in 1..Len(events) }) =>
    /\ pc = "failed"
    /\ escaped = "save"
    /\ outFile.state # "partial"

\* Entry k resolves to a layout that instantiates with no text-bearing shape.
ResolvesToNoTextShapes(k) ==
  LET got == slide_layouts_getitem(NumLayouts,
               ResolveLayout(slides_data[k].layout_index, NumLayouts))
  IN  /\ got.found
      /\ template.layouts[got.pos + 1].ok
      /\ template.layouts[got.pos + 1].text_shapes = 0

\* C8: for an entry that resolves to a layout with no text-bearing shape,
\* once its slide has been requested: the slide exists and is empty, the
\* no_text_shapes warning is logged, no title or content was assigned for it,
\* the loop has moved past it (to the next entry, or to the save after the
\* last one), and a run that returns has requested a slide for every later
\* entry and saved the document.
C8_NoTextShapesSlideKeptAndLoopGoesOn ==
  \A k \in 1..NumEntries :
    (ResolvesToNoTextShapes(k) /\ EventsOf("add_slide", k) # {}) =>
      /\ Cardinality(PlanSlides(k)) = 1
      /\ \A j \in PlanSlides(k) : prs.slides[j].shapes = << >>
      /\ LogRec("warning", "no_text_shapes", k) \in log
      /\ EventsOf("title", k) = {} /\ EventsOf("content", k) = {}
      /\ idx > k
      /\ (events[Len(events)] = Event("add_slide", k, TRUE)) =>
            pc = (IF k < NumEntries THEN "entry" ELSE "save")
      /\ (pc = "done") =>
            /\ \A later \in (k + 1)..NumEntries : EventsOf("add_slide", later) # {}
            /\ outFile.state = "complete"

\* C8's case: an entry with no text shapes, a later entry built, the deck saved.
C8_Witness ==
  /\ pc = "done"
  /\ \E k \in 1..NumEntries :
       /\ ResolvesToNoTextShapes(k)
       /\ k < NumEntries
       /\ PlanSlides(k + 1) # {}
       /\ Len(outFile.slides) = Len(prs.slides)

\* C9: the document events are ordered: the template is opened first and only
\* once; add_slide events carry the plan positions 1, 2, ... in order, each
\* once; every population event of an entry follows that entry's add_slide
\* with no other entry's event in between; a save comes only after the last
\* entry and is the last event; a run that returns has opened once and saved
\* once; and the document in memory is unchanged since it was saved.
C9_EventsOrdered ==
  /\ \A i \in 1..Len(events) :
       /\ (events[i].op = "open") <=> (i = 1)
       /\ (events[i].op = "save") => i = Len(events)
       /\ (events[i].op = "save") => EventsOf("add_slide", NumEntries) # {}
       /\ (events[i].op = "add_slide") =>
            events[i].entry =
              1 + Cardinality({ h \in 1..(i - 1) : events[h].op = "add_slide" })
       /\ (events[i].op \in FieldOps) =>
            /\ events[i - 1].entry = events[i].entry
            /\ Cardinality(EventsOf(events[i].op, events[i].entry)) = 1
       /\ (events[i].op = "title") => events[i - 1] = Event("add_slide", events[i].entry, TRUE)
       /\ (events[i].op = "content") => events[i - 1] = Event("title", events[i].entry, TRUE)
       /\ (events[i].op = "notes") => events[i - 1].op \in {"title", "content"}
  /\ (pc = "done") =>
       /\ Cardinality(EventsOf("open", 0)) = 1
       /\ Cardinality(EventsOf("save", 0)) = 1
       /\ \A k \in 1..NumEntries : Cardinality(EventsOf("add_slide", k)) = 1
  /\ (outFile.state = "complete") => outFile.slides = prs.slides

\* C9's case: two entries populated one after the other, then the save.
C9_Witness ==
  /\ pc = "done"
  /\ NumEntries = 2
  /\ EventsOf("content", 1) # {} /\ EventsOf("notes", 1) # {}
  /\ EventsOf("content", 2) # {} /\ EventsOf("notes", 2) # {}

\* C10: analyze_slide_layouts reports one record per layout of the template,
\* in template order, the record at position i carrying index i (0-based) and
\* that layout's name and placeholders, total_layouts being the layout count;
\* and every slide build_presentation instantiated for a reported index is an
\* instance of the layout reported under that index.
Analyzed == layouts_info # NoLayoutsInfo
C10_ReportedIndexIsTheLayoutBuilt ==
  Analyzed =>
    /\ layouts_info.total_layouts = NumLayouts
    /\ Len(layouts_info.layouts) = NumLayouts
    /\ \A i \in 1..Len(layouts_info.layouts) :
         /\ layouts_info.layouts[i].index = i - 1
         /\ layouts_info.layouts[i].name = template.layouts[i].name
         /\ layouts_info.layouts[i].placeholders = template.layouts[i].placeholders
    /\ \A j \in 1..Len(prs.slides) : \A r \in 1..Len(layouts_info.layouts) :
         (prs.slides[j].entry > 0 /\
            slides_data[prs.slides[j].entry].layout_index = layouts_info.layouts[r].index) =>
           /\ prs.slides[j].layout_name = layouts_info.layouts[r].name
           /\ prs.slides[j].layout = layouts_info.layouts[r].index
           /\ prs.layouts[prs.slides[j].layout + 1] = template.layouts[r]

\* C10's case: a template of two different layouts analysed, and a slide
\* built from the second one by its reported index.
C10_Witness ==
  /\ pc = "done"
  /\ NumLayouts = 2
  /\ template.layouts[1] # template.layouts[2]
  /\ \E j \in 1..Len(prs.slides) :
       /\ prs.slides[j].entry > 0
       /\ slides_data[prs.slides[j].entry].layout_index = 1
       /\ layouts_info.layouts[2].index = 1

\* The file a request that answered success offers for download.
DownloadOf(r) == outputs[out_name[r]]
Succeeded == { r \in Requests : response[r] = "success" }

\* No successful request's file was analysed or built from another request's
\* template.
C11_OwnTemplate ==
  \A r \in Succeeded : DownloadOf(r).analyzed = r /\ DownloadOf(r).template = r

\* No successful request's file was written by another request's subprocess.
C11_OwnSubprocess == \A r \in Succeeded : DownloadOf(r).by = r

\* No two successful requests share an output file.
C11_OwnOutputFile ==
  \A r1, r2 \in Succeeded : r1 # r2 => out_name[r1] # out_name[r2]

\* C11: when /generate requests overlap, every request that answers success
\* offers a download file built from its own uploaded template by its own
\* subprocess, and no request's output file is another's.
C11_RequestsIsolated == C11_OwnTemplate /\ C11_OwnSubprocess /\ C11_OwnOutputFile

====
